---- MODULE Spec2Model ----
(***************************************************************************)
(* Model of the BibTeX DBLP Resolver page (src/pages/dblp.py): the title   *)
(* normaliser, the DBLP search client with its retry loop, the similarity  *)
(* scoring and record merge, and the Streamlit script that is re-executed  *)
(* top to bottom over st.session_state on every rerun and widget event.    *)
(*                                                                         *)
(* Python strings are sequences of one-character strings, so that          *)
(* normalisation, splitting and joining are computed character by          *)
(* character.  A Python dict is a function whose DOMAIN is the set of keys *)
(* present.  Python's 0-based cursor indexes TLA+'s 1-based sequences as   *)
(* entries[current_entry + 1].                                             *)
(***************************************************************************)
EXTENDS Integers, Sequences, FiniteSets, TLC

VARIABLES
    uploaded_file,      \* st.file_uploader value: 0 = None, else a file id
    has_state,          \* "current_entry" in st.session_state
    current_entry,      \* st.session_state.current_entry
    processed_entries,  \* st.session_state.processed_entries
    processing_done,    \* st.session_state.processing_done
    pc,                 \* position of the running script: idle / search / scored
    sched,              \* why a script run is due: idle / rerun / upload / callback
    retry_count,        \* search_dblp local
    response,           \* search_dblp local: the response of the latest request
    prev,               \* the response of the request before the latest
    paused,             \* seconds slept since the latest response
    dblp_results,       \* value returned by search_dblp
    screen,             \* what the last script run left on the page
    m_pc,               \* merge harness: input / merged
    m_bibtex,           \* merge harness: the caller's dict object
    m_dblp,             \* merge harness: the chosen candidate
    m_merged,           \* merge harness: the returned dict
    requests,           \* search_dblp: requests.get calls made by the running call
    t_call,             \* title harness: a title, its normal forms and its score
    a_call,             \* author harness: an authors value and its display string
    f_call              \* flickr harness: a call of try_download_flickr_image

vars == <<uploaded_file, has_state, current_entry, processed_entries,
          processing_done, pc, sched, retry_count, response, prev, paused,
          dblp_results, screen, m_pc, m_bibtex, m_dblp, m_merged, requests,
          t_call, a_call, f_call>>

session_vars == <<has_state, current_entry, processed_entries, processing_done>>
search_vars == <<retry_count, response, prev, paused, dblp_results, requests>>
merge_vars == <<m_pc, m_bibtex, m_dblp, m_merged>>
harness_vars == <<t_call, a_call, f_call>>

(***************************************************************************)
(* Bounds                                                                  *)
(***************************************************************************)
MaxEntries == 3         \* entries in the longest uploaded file

(***************************************************************************)
(* Characters and strings                                                  *)
(***************************************************************************)
Digits == {"0", "1", "2", "3", "4", "5", "6", "7", "8", "9"}
LowerOf == [c \in {"A", "B", "C", "D", "E"} |->
              CASE c = "A" -> "a" [] c = "B" -> "b" [] c = "C" -> "c"
                [] c = "D" -> "d" [] c = "E" -> "e"]
Uppers == DOMAIN LowerOf
Lowers == {"a", "b", "c", "d", "e", "f", "i", "x", "y"}

\* str.isspace for one character
isspace(c) == c \in {" ", "\t"}

\* str.isalnum for one character.  "I_dot" stands for U+0130 (a letter);
\* "dot_above" for the combining mark U+0307, which is not alphanumeric.
isalnum(c) == c \in Digits \cup Lowers \cup Uppers \cup {"I_dot"}

\* str.lower for one character; U+0130 lowers to the two characters
\* "i" U+0307, every caseless character to itself.
lower_char(c) ==
    IF c \in Uppers THEN <<LowerOf[c]>>
    ELSE IF c = "I_dot" THEN <<"i", "dot_above">>
    ELSE <<c>>

RECURSIVE Concat(_)
\* "".join(parts)
Concat(parts) ==
    IF parts = <<>> THEN <<>> ELSE Head(parts) \o Concat(Tail(parts))

RECURSIVE Join(_, _)
\* sep.join(parts)
Join(parts, sep) ==
    IF parts = <<>> THEN <<>>
    ELSE IF Len(parts) = 1 THEN parts[1]
    ELSE parts[1] \o sep \o Join(Tail(parts), sep)

RECURSIVE SplitFrom(_, _, _)
\* str.split() with no argument: the maximal runs of non-space characters
SplitFrom(s, i, word) ==
    IF i > Len(s) THEN (IF word = <<>> THEN <<>> ELSE <<word>>)
    ELSE IF isspace(s[i])
         THEN (IF word = <<>> THEN <<>> ELSE <<word>>) \o SplitFrom(s, i + 1, <<>>)
         ELSE SplitFrom(s, i + 1, Append(word, s[i]))

split(s) == SplitFrom(s, 1, <<>>)

\* str.isdigit
isdigit(s) == s # <<>> /\ \A i \in 1..Len(s) : s[i] \in Digits

RECURSIVE Contains(_, _)
\* sub in s, for strings
Contains(s, sub) ==
    IF Len(sub) > Len(s) THEN FALSE
    ELSE IF SubSeq(s, 1, Len(sub)) = sub THEN TRUE
    ELSE Contains(Tail(s), sub)

RECURSIVE ReplaceAll(_, _, _)
\* s.replace(old, new) for a non-empty old: leftmost, non-overlapping
ReplaceAll(s, old, new) ==
    IF Len(s) < Len(old) THEN s
    ELSE IF SubSeq(s, 1, Len(old)) = old
         THEN new \o ReplaceAll(SubSeq(s, Len(old) + 1, Len(s)), old, new)
         ELSE <<Head(s)>> \o ReplaceAll(Tail(s), old, new)

RECURSIVE ParseDigits(_, _)
ParseDigits(s, acc) ==
    IF s = <<>> THEN acc
    ELSE ParseDigits(Tail(s),
           10 * acc + (CHOOSE d \in 0..9 :
                         <<"0", "1", "2", "3", "4", "5", "6", "7", "8", "9">>[d + 1] = Head(s)))

\* int(s) for a header string: the value of a digit string; anything else
\* (an HTTP-date, for one) raises ValueError.
int_raises(s) == ~isdigit(s)
int_of(s) == ParseDigits(s, 0)

(***************************************************************************)
(* clean_title                                                             *)
(***************************************************************************)
clean_title(title) ==
    LET r1 == ReplaceAll(title, <<"{">>, <<>>)
        r2 == ReplaceAll(r1, <<"}">>, <<>>)
        r3 == ReplaceAll(r2, <<"-", "-">>, <<" ">>)
        r4 == ReplaceAll(r3, <<"-">>, <<" ">>)
        kept == SelectSeq(r4, LAMBDA c : isalnum(c) \/ isspace(c))
    IN  Concat([i \in 1..Len(kept) |-> lower_char(kept[i])])

(***************************************************************************)
(* Python values of the heterogeneous "authors" field, tagged by type      *)
(***************************************************************************)
PyNone == [py |-> "none", v |-> <<>>]
PyStr(s) == [py |-> "str", v |-> s]
PyList(l) == [py |-> "list", v |-> l]
PyDict(d) == [py |-> "dict", v |-> d]

\* bool(x)
Truthy(x) ==
    CASE x.py = "none" -> FALSE
      [] x.py = "str" -> x.v # <<>>
      [] x.py = "list" -> x.v # <<>>
      [] x.py = "dict" -> DOMAIN x.v # {}

NA == <<"N", "/", "A">>

\* str(x) of a list item that is not a dict
str_of(x) == IF x.py = "str" THEN x.v ELSE <<"N", "o", "n", "e">>

\* author.get("text", "")
author_text(author) ==
    IF "text" \in DOMAIN author.v THEN author.v["text"].v ELSE <<>>

\* parts[-1] of an empty parts list raises IndexError: a text of spaces only
author_name_raises(author) ==
    /\ author.py = "dict"
    /\ author_text(author) # <<>>
    /\ split(author_text(author)) = <<>>

\* body of the loop over author_list: the name one author contributes
author_name(author) ==
    IF author.py = "dict"
    THEN LET text == author_text(author)
             parts == split(text)
             name == IF text # <<>> /\ isdigit(parts[Len(parts)])
                     THEN Join(SubSeq(parts, 1, Len(parts) - 1), <<" ">>)
                     ELSE text
         IN  IF name # <<>> THEN name ELSE NA
    ELSE str_of(author)

\* authors.get("author", []) for a dict, else authors itself
author_list_of(authors) ==
    IF authors.py = "dict"
    THEN (IF "author" \in DOMAIN authors.v THEN authors.v["author"] ELSE PyList(<<>>))
    ELSE authors

get_author_str_raises(authors) ==
    /\ Truthy(authors)
    /\ authors.py # "str"
    /\ author_list_of(authors).py = "list"
    /\ \E i \in 1..Len(author_list_of(authors).v) :
           author_name_raises(author_list_of(authors).v[i])

get_author_str(authors) ==
    IF ~Truthy(authors) THEN NA
    ELSE IF authors.py = "str" THEN authors.v
    ELSE LET author_list == author_list_of(authors)
         IN  IF author_list.py = "str" THEN author_list.v
             ELSE IF author_list.py = "list"
             THEN LET author_names ==
                          [i \in 1..Len(author_list.v) |-> author_name(author_list.v[i])]
                  IN  Join(SelectSeq(author_names, LAMBDA n : n # <<>>), <<";", " ">>)
             ELSE NA

(***************************************************************************)
(* merge_entries, add_todo_note                                            *)
(***************************************************************************)
\* d[k] = v on a dict
Put(d, k, v) == [x \in DOMAIN d \cup {k} |-> IF x = k THEN v ELSE d[x]]

\* field_mapping.items(), in insertion order
field_mapping ==
    << <<"title", "title">>, <<"year", "year">>, <<"doi", "doi">>,
       <<"url", "url">>, <<"venue", "journal">>, <<"type", "note">> >>

RECURSIVE overlay_fields_copying_empty(_, _, _)
\* as overlay_fields, without the test that the candidate's value is non-empty
overlay_fields_copying_empty(merged, dblp_entry, i) ==
    IF i > Len(field_mapping) THEN merged
    ELSE IF field_mapping[i][1] \in DOMAIN dblp_entry
         THEN overlay_fields_copying_empty(
                  Put(merged, field_mapping[i][2], dblp_entry[field_mapping[i][1]]),
                  dblp_entry, i + 1)
         ELSE overlay_fields_copying_empty(merged, dblp_entry, i + 1)

RECURSIVE overlay_fields(_, _, _)
\* the loop over field_mapping, from its i-th item on
overlay_fields(merged, dblp_entry, i) ==
    IF i > Len(field_mapping) THEN merged
    ELSE LET dblp_field == field_mapping[i][1]
             bibtex_field == field_mapping[i][2]
         IN  IF dblp_field \in DOMAIN dblp_entry /\ dblp_entry[dblp_field] # <<>>
             THEN overlay_fields(Put(merged, bibtex_field, dblp_entry[dblp_field]),
                                 dblp_entry, i + 1)
             ELSE overlay_fields(merged, dblp_entry, i + 1)

merge_entries_raises(dblp_entry) ==
    "authors" \in DOMAIN dblp_entry /\ get_author_str_raises(dblp_entry["authors"])

merge_entries(bibtex_entry, dblp_entry) ==
    LET merged == overlay_fields(bibtex_entry, dblp_entry, 1)
    IN  IF "authors" \in DOMAIN dblp_entry
        THEN Put(merged, "author", get_author_str(dblp_entry["authors"]))
        ELSE merged

TodoNote ==
    <<"T", "O", "D", "O", ":", " ", "S", "e", "a", "r", "c", "h", " ",
    "f", "o", "r", " ", "t", "h", "i", "s", " ", "e", "n", "t", "r", "y",
    " ", "m", "a", "n", "u", "a", "l", "l", "y", " ", "i", "n", " ", "D",
    "B", "L", "P">>

\* as add_todo_note, an existing note being replaced
add_todo_note_overwriting(entry) == Put(entry, "note", TodoNote)

add_todo_note(entry) ==
    IF "note" \in DOMAIN entry
    THEN Put(entry, "note", entry["note"] \o <<".", " ">> \o TodoNote)
    ELSE Put(entry, "note", TodoNote)

(***************************************************************************)
(* Similarity scoring and the choice of the auto-accepted candidate        *)
(***************************************************************************)
\* set(s.split())
word_set(s) == {split(s)[i] : i \in 1..Len(split(s))}

\* as similarity_above_threshold, with >= in place of >
similarity_at_or_above_threshold(original_clean, result_clean) ==
    LET overlap == word_set(original_clean) \cap word_set(result_clean)
        total_words == word_set(original_clean) \cup word_set(result_clean)
    IN  IF total_words # {}
        THEN 10 * Cardinality(overlap) >= 8 * Cardinality(total_words)
        ELSE FALSE

\* similarity > 0.8, where similarity = len(overlap) / len(total_words) if
\* total_words else 0.  For word counts this small the float quotient is
\* above the float 0.8 exactly when 10 * |overlap| > 8 * |total_words|.
similarity_above_threshold(original_clean, result_clean) ==
    LET overlap == word_set(original_clean) \cap word_set(result_clean)
        total_words == word_set(original_clean) \cup word_set(result_clean)
    IN  IF total_words # {}
        THEN 10 * Cardinality(overlap) > 8 * Cardinality(total_words)
        ELSE FALSE

\* as similarity, the words counted with their repetitions
similarity_over_word_lists(original_clean, result_clean) ==
    LET overlap == word_set(original_clean) \cap word_set(result_clean)
    IN  IF split(original_clean) \o split(result_clean) # <<>>
        THEN <<2 * Cardinality(overlap),
               Len(split(original_clean)) + Len(split(result_clean))>>
        ELSE <<0, 1>>

\* similarity (line 262) as a fraction <<numerator, denominator>>
similarity(original_clean, result_clean) ==
    LET overlap == word_set(original_clean) \cap word_set(result_clean)
        total_words == word_set(original_clean) \cup word_set(result_clean)
    IN  IF total_words # {}
        THEN <<Cardinality(overlap), Cardinality(total_words)>>
        ELSE <<0, 1>>

\* the list exact_matches after the loop over dblp_results
exact_matches_of(entry, results) ==
    SelectSeq(results, LAMBDA result :
        similarity_above_threshold(clean_title(entry["title"]),
                                   clean_title(result["title"])))

\* x.get("venue", "")
venue_of(x) == IF "venue" \in DOMAIN x THEN x["venue"] ELSE <<>>

\* the sort key: "CoRR" in venue or "arXiv" in venue
sort_key(x) ==
    \/ Contains(venue_of(x), <<"C", "o", "R", "R">>)
    \/ Contains(venue_of(x), <<"a", "r", "X", "i", "v">>)

\* as sort_exact_matches, without the sort
sort_exact_matches_unsorted(exact_matches) == exact_matches

\* list.sort(key=...) is stable and orders False before True
sort_exact_matches(exact_matches) ==
    SelectSeq(exact_matches, LAMBDA x : ~sort_key(x))
        \o SelectSeq(exact_matches, LAMBDA x : sort_key(x))

(***************************************************************************)
(* Inputs: the files a user can upload and the answers the service can     *)
(* give.  Titles are chosen so that the word overlap with TitleMain takes  *)
(* the values 1, 5/6, 4/5 and 0.                                           *)
(***************************************************************************)
TitleMain == <<"a", " ", "b", " ", "c", " ", "d", " ", "e">>
TitleMessy == <<"{", "A", "}", "-", "b", "-", "-", "C", " ", "d", ",", " ", "e", "!">>
TitleOther == <<"x", " ", "y">>
TitleFour == <<"a", " ", "b", " ", "c", " ", "d">>
TitleSix == <<"A", " ", "b", " ", "c", " ", "d", " ", "e", " ", "f">>
TitleUpper == <<"A", " ", "B", " ", "C", " ", "D", " ", "E">>

DigitChar(i) == <<"0", "1", "2", "3", "4", "5", "6", "7", "8", "9">>[(i % 10) + 1]

FileIds == 1..3

\* len(bib_database.entries) of file f
FileLen(f) ==
    CASE f = 1 -> MaxEntries
      [] f = 2 -> MaxEntries - 1
      [] f = 3 -> 1

\* bib_database.entries[i - 1] of file f.  File 3 holds an entry without a
\* title field.
EntryAt(f, i) ==
    CASE f = 1 /\ i % 2 = 1 ->
           [ID |-> <<"A", DigitChar(i)>>, title |-> TitleMain, author |-> <<"x">>]
      [] f = 1 /\ i % 2 = 0 ->
           [ID |-> <<"A", DigitChar(i)>>, title |-> TitleMessy, note |-> <<"n">>]
      [] f = 2 ->
           [ID |-> <<"B", DigitChar(i)>>, title |-> TitleOther, year |-> <<"1", "9">>]
      [] f = 3 ->
           [ID |-> <<"C", DigitChar(i)>>, author |-> <<"y">>]

\* bibtexparser.loads(uploaded_file...).entries
Entries(f) == [i \in 1..FileLen(f) |-> EntryAt(f, i)]

CandFour ==
    [title |-> TitleFour, venue |-> <<"A", "C", "M">>, year |-> <<"2", "0">>]
CandCoRR ==
    [title |-> TitleUpper, venue |-> <<"C", "o", "R", "R">>, doi |-> <<>>,
     type |-> <<"I">>,
     authors |-> PyDict([author |->
         PyList(<< PyDict([text |-> PyStr(<<"x", " ", "y", " ", "0", "1">>)]),
                   PyDict([text |-> PyStr(<<"b">>)]) >>)])]
CandACM ==
    [title |-> TitleSix, venue |-> <<"A", "C", "M">>, doi |-> <<"1", "0">>,
     url |-> <<"u">>, year |-> <<"2", "1">>]
CandArxiv ==
    [title |-> TitleMessy, venue |-> <<"a", "b", "s", " ", "a", "r", "X", "i", "v">>,
     authors |-> PyStr(<<"x">>)]
CandFar ==
    [title |-> TitleOther, venue |-> <<"A", "C", "M">>]

\* the hit lists a successful response can carry.  Every hit is a record
\* as the service documents it: it has a title, and no author text is blank.
HitLists ==
    << <<>>,
       <<CandFour>>,
       <<CandCoRR, CandACM>>,
       <<CandFar, CandArxiv, CandCoRR>> >>

\* the Retry-After header of a 429 response: absent, seconds, or an HTTP-date
NoHeader == <<>>
RetryAfterHeaders == << NoHeader, <<"5">>, <<"W", "e", "d">>, <<"1", "2">> >>

\* what one requests.get can bring: a response with status 200 and hits, a
\* response with status 429, or a RequestException
Responses ==
    [kind : {"ok"}, hits : 1..Len(HitLists), header : {1}]
        \cup [kind : {"429"}, hits : {1}, header : 1..Len(RetryAfterHeaders)]
        \cup [kind : {"error"}, hits : {1}, header : {1}]
NoResponse == [kind |-> "none", hits |-> 1, header |-> 1]

(***************************************************************************)
(* search_dblp: one action per iteration of the retry loop                 *)
(***************************************************************************)
max_retries == 5
DefaultRetryAfter == 30
CourtesyDelay == 2

Unset == [kind |-> "unset", hits |-> <<>>]
ReturnedNone == [kind |-> "None", hits |-> <<>>]
ReturnedList(l) == [kind |-> "list", hits |-> l]

\* int(response.headers.get("Retry-After", 30))
retry_after_of(header) ==
    IF header = NoHeader THEN DefaultRetryAfter ELSE int_of(header)

\* as sleep_on_429, without the sleep
sleep_on_429_skipped(retry_after) == 0

\* time.sleep(retry_after) on the 429 branch: the seconds the call pauses
sleep_on_429(retry_after) == retry_after

\* the value of the call when the while loop ends with retry_count ==
\* max_retries: control falls off the end of the function
returned_after_loop == ReturnedNone

\* the value of the call on the last failed request: return []
returned_on_last_error == ReturnedList(<<>>)

NoEntry == [ID |-> <<>>]
Blank == [kind |-> "blank", entry |-> NoEntry, results |-> <<>>, export |-> <<>>]
ErrorPage == [kind |-> "error", entry |-> NoEntry, results |-> <<>>, export |-> <<>>]
ConflictPage(entry, results) ==
    [kind |-> "conflict", entry |-> entry, results |-> results, export |-> <<>>]
DonePage(export) ==
    [kind |-> "done", entry |-> NoEntry, results |-> <<>>, export |-> export]

\* as next_attempt, the attempt not being counted
next_attempt_uncounted(count) == count

\* retry_count += 1 (lines 61 and 79)
next_attempt(count) == count + 1

\* search_dblp returns: the script goes on at line 248
Return(value) ==
    /\ dblp_results' = value
    /\ pc' = "scored"
    /\ UNCHANGED <<sched, screen>>

\* an exception nobody catches ends the script run; no rerun is requested
Uncaught ==
    /\ pc' = "idle"
    /\ sched' = "idle"
    /\ screen' = ErrorPage
    /\ dblp_results' = Unset

\* one pass through the body of "while retry_count < max_retries", the
\* request of that pass being answered by r
Request(r) ==
    /\ pc = "search"
    /\ retry_count < max_retries
    /\ response' = r
    /\ prev' = response
    /\ requests' = requests + 1
    /\ UNCHANGED <<uploaded_file, session_vars, merge_vars, harness_vars>>
    /\ CASE r.kind = "429" ->
              LET header == RetryAfterHeaders[r.header]
              IN  IF header # NoHeader /\ int_raises(header)
                  THEN /\ Uncaught
                       /\ UNCHANGED <<retry_count, paused>>
                  ELSE /\ paused' = sleep_on_429(retry_after_of(header))
                       /\ retry_count' = next_attempt(retry_count)
                       /\ IF retry_count' < max_retries
                          THEN UNCHANGED <<pc, sched, screen, dblp_results>>
                          ELSE Return(returned_after_loop)
         [] r.kind = "ok" ->
              /\ paused' = CourtesyDelay
              /\ UNCHANGED retry_count
              /\ Return(ReturnedList(HitLists[r.hits]))
         [] r.kind = "error" ->
              /\ paused' = 0
              /\ IF retry_count < max_retries - 1
                 THEN /\ retry_count' = next_attempt(retry_count)
                      /\ UNCHANGED <<pc, sched, screen, dblp_results>>
                 ELSE /\ UNCHANGED retry_count
                      /\ Return(returned_on_last_error)

(***************************************************************************)
(* The page script                                                         *)
(***************************************************************************)
\* as handle_accept, without the advance of the cursor
handle_accept_without_advance(entry, dblp_entry) ==
    /\ processed_entries' = Append(processed_entries, merge_entries(entry, dblp_entry))
    /\ current_entry' = current_entry

handle_accept(entry, dblp_entry) ==
    /\ processed_entries' = Append(processed_entries, merge_entries(entry, dblp_entry))
    /\ current_entry' = current_entry + 1

\* as handle_decline, finalizing an annotated copy
handle_decline_annotated(entry) ==
    /\ processed_entries' = Append(processed_entries, add_todo_note(entry))
    /\ current_entry' = current_entry + 1

handle_decline(entry) ==
    /\ processed_entries' = Append(processed_entries, entry)
    /\ current_entry' = current_entry + 1

\* lines 222-225: the session state the run works on, given whether the key
\* current_entry is present
session_after_init(present) ==
    IF present
    THEN [current_entry |-> current_entry,
          processed_entries |-> processed_entries,
          processing_done |-> processing_done]
    ELSE [current_entry |-> 0, processed_entries |-> <<>>, processing_done |-> FALSE]

\* A script run from the top (lines 214-246 and 340-362) up to the call of
\* search_dblp, or to its end when nothing is to be searched.
ScriptStart ==
    /\ pc = "idle"
    /\ sched \in {"rerun", "upload", "callback"}
    /\ sched' = "idle"
    /\ response' = NoResponse
    /\ prev' = NoResponse
    /\ paused' = 0
    /\ retry_count' = 0
    /\ requests' = 0
    /\ dblp_results' = Unset
    /\ UNCHANGED <<uploaded_file, merge_vars, harness_vars>>
    /\ IF uploaded_file = 0
       THEN /\ UNCHANGED session_vars
            /\ pc' = "idle"
            /\ screen' = Blank
       ELSE LET st == session_after_init(has_state)
            IN  /\ has_state' = TRUE
                /\ current_entry' = st.current_entry
                /\ processed_entries' = st.processed_entries
                /\ processing_done' = st.processing_done
                /\ IF ~st.processing_done /\ st.current_entry < FileLen(uploaded_file)
                   THEN IF "title" \in DOMAIN Entries(uploaded_file)[st.current_entry + 1]
                        THEN pc' = "search" /\ screen' = Blank
                        ELSE pc' = "idle" /\ screen' = ErrorPage
                   ELSE /\ pc' = "idle"
                        /\ screen' = IF st.processing_done
                                     THEN DonePage(st.processed_entries)
                                     ELSE Blank

\* the candidate handed to handle_accept on the auto-accept branch
auto_accepted(entry, results) ==
    sort_exact_matches(exact_matches_of(entry, results))[1]

\* The rest of the run once search_dblp has returned (lines 248-338).
ScriptFinish ==
    LET entry == Entries(uploaded_file)[current_entry + 1]
        results == dblp_results.hits
    IN  /\ pc = "scored"
        /\ pc' = "idle"
        /\ IF dblp_results.kind = "list" /\ results # <<>>
           THEN IF exact_matches_of(entry, results) # <<>>
                THEN /\ handle_accept(entry, auto_accepted(entry, results))
                     /\ screen' = Blank
                ELSE /\ UNCHANGED <<processed_entries, current_entry>>
                     /\ screen' = ConflictPage(entry, results)
           ELSE /\ handle_decline(add_todo_note(entry))
                /\ screen' = Blank
        /\ processing_done' =
               IF current_entry' < FileLen(uploaded_file) THEN processing_done ELSE TRUE
        /\ sched' = "rerun"
        /\ dblp_results' = Unset
        /\ response' = NoResponse
        /\ prev' = NoResponse
        /\ paused' = 0
        /\ retry_count' = 0
        /\ requests' = 0
        /\ UNCHANGED <<uploaded_file, has_state, merge_vars, harness_vars>>

\* The user acts between script runs, also while a rerun requested by
\* st.rerun() is due (the conflict page requests one on every run); a
\* script run, once started, is taken to run to its end.
UserCanAct == pc = "idle" /\ sched \in {"idle", "rerun"}

\* number button i of the conflict page: its on_click callback
ClickMatch(i) ==
    /\ UserCanAct
    /\ screen.kind = "conflict"
    /\ i \in 1..(IF Len(screen.results) < 5 THEN Len(screen.results) ELSE 5)
    /\ handle_accept(screen.entry, screen.results[i])
    /\ sched' = "callback"
    /\ UNCHANGED <<uploaded_file, has_state, processing_done, pc, search_vars,
                   screen, merge_vars, harness_vars>>

\* the decline button of the conflict page: its on_click callback
ClickDecline ==
    /\ UserCanAct
    /\ screen.kind = "conflict"
    /\ handle_decline(screen.entry)
    /\ sched' = "callback"
    /\ UNCHANGED <<uploaded_file, has_state, processing_done, pc, search_vars,
                   screen, merge_vars, harness_vars>>

\* the user puts file f into the uploader
Upload(f) ==
    /\ UserCanAct
    /\ f # uploaded_file
    /\ uploaded_file' = f
    /\ sched' = "upload"
    /\ UNCHANGED <<session_vars, pc, search_vars, screen, merge_vars, harness_vars>>

\* the user clears the uploader
RemoveFile ==
    /\ UserCanAct
    /\ uploaded_file # 0
    /\ uploaded_file' = 0
    /\ sched' = "upload"
    /\ UNCHANGED <<session_vars, pc, search_vars, screen, merge_vars, harness_vars>>

\* as ClickReset, clearing the Done flag only
ClickReset_flag_only ==
    /\ UserCanAct
    /\ screen.kind = "done"
    /\ processing_done' = FALSE
    /\ sched' = "rerun"
    /\ screen' = Blank
    /\ UNCHANGED <<uploaded_file, has_state, current_entry, processed_entries, pc,
                   search_vars, merge_vars, harness_vars>>

\* "Process another file" on the Done page (lines 365-369): both keys are
\* deleted, the flag is cleared and a rerun is requested.  The values kept
\* in current_entry and processed_entries while has_state is FALSE stand
\* for absent keys.
ClickReset ==
    /\ UserCanAct
    /\ screen.kind = "done"
    /\ has_state' = FALSE
    /\ current_entry' = 0
    /\ processed_entries' = <<>>
    /\ processing_done' = FALSE
    /\ sched' = "rerun"
    /\ screen' = Blank
    /\ UNCHANGED <<uploaded_file, pc, search_vars, merge_vars, harness_vars>>

\* the harnesses of the pure functions stay off while the page runs
TitleOff == [pc |-> "off", title |-> <<>>, result_title |-> <<>>, clean |-> <<>>,
             again |-> <<>>, result_clean |-> <<>>, score |-> <<0, 1>>,
             exact |-> FALSE]
AuthorsOff == [pc |-> "off", authors |-> PyNone, result |-> <<>>]
FlickrOff == [pc |-> "off", base_url |-> <<>>, probed |-> <<>>,
              returned |-> [success |-> FALSE, msg |-> <<>>]]

Init ==
    /\ uploaded_file = 0
    /\ has_state = FALSE
    /\ current_entry = 0
    /\ processed_entries = <<>>
    /\ processing_done = FALSE
    /\ pc = "idle"
    /\ sched = "idle"
    /\ retry_count = 0
    /\ response = NoResponse
    /\ prev = NoResponse
    /\ paused = 0
    /\ dblp_results = Unset
    /\ screen = Blank
    /\ m_pc = "off"
    /\ m_bibtex = NoEntry
    /\ m_dblp = NoEntry
    /\ m_merged = NoEntry
    /\ requests = 0
    /\ t_call = TitleOff
    /\ a_call = AuthorsOff
    /\ f_call = FlickrOff

Next ==
    \/ ScriptStart
    \/ \E r \in Responses : Request(r)
    \/ ScriptFinish
    \/ \E i \in 1..5 : ClickMatch(i)
    \/ ClickDecline
    \/ \E f \in FileIds : Upload(f)
    \/ RemoveFile
    \/ ClickReset

Spec == Init /\ [][Next]_vars

(***************************************************************************)
(* merge_entries on its own: a caller holding a local record calls it with *)
(* a candidate drawn from every combination of absent, empty and set       *)
(* fields and of shapes of the authors field.                              *)
(***************************************************************************)
DblpFields == {"title", "year", "doi", "url", "venue", "type"}
LocalOptional == {"title", "author", "note"}

LocalValue(k) ==
    CASE k = "ID" -> <<"K", "1">>
      [] k = "year" -> <<"1", "9">>
      [] k = "title" -> <<"O", "l", "d">>
      [] k = "author" -> <<"m", "e">>
      [] k = "note" -> <<"n">>

DblpValue(k) ==
    CASE k = "title" -> <<"N", "e", "w">>
      [] k = "year" -> <<"2", "0">>
      [] k = "doi" -> <<"1", "0">>
      [] k = "url" -> <<"u">>
      [] k = "venue" -> <<"A", "C", "M">>
      [] k = "type" -> <<"J">>

AuthorShapes ==
    << PyNone,
       PyStr(<<"x", " ", "y">>),
       PyList(<<>>),
       PyList(<< PyDict([text |-> PyStr(<<"x", " ", "y", " ", "0", "1">>)]),
                 PyDict([text |-> PyStr(<<"b">>)]) >>),
       PyDict([author |-> PyList(<< PyDict([text |-> PyStr(<<"0", "1">>)]) >>)]),
       PyDict([author |-> PyDict([text |-> PyStr(<<"x">>)])]),
       PyList(<< PyStr(<<"a">>), PyStr(<<>>) >>),
       PyList(<< PyDict([text |-> PyStr(<<" ">>)]) >>) >>

LocalRecord(S) == [k \in S \cup {"ID", "year"} |-> LocalValue(k)]

\* choice[k]: 0 = field absent, 1 = empty string, 2 = set; a: 0 = no authors
\* field, else the index of its shape
CandidateRecord(choice, a) ==
    [k \in {f \in DblpFields : choice[f] # 0} \cup (IF a = 0 THEN {} ELSE {"authors"}) |->
        IF k = "authors" THEN AuthorShapes[a]
        ELSE IF choice[k] = 1 THEN <<>> ELSE DblpValue(k)]

\* the caller's dict after the call: merge_entries writes to the copy made
\* on its first line only
bibtex_entry_after_merge(bibtex_entry, dblp_entry) == bibtex_entry

MergeCall ==
    /\ m_pc = "input"
    /\ m_bibtex' = bibtex_entry_after_merge(m_bibtex, m_dblp)
    /\ IF merge_entries_raises(m_dblp)
       THEN m_pc' = "raised" /\ UNCHANGED m_merged
       ELSE m_pc' = "merged" /\ m_merged' = merge_entries(m_bibtex, m_dblp)
    /\ UNCHANGED <<uploaded_file, session_vars, pc, sched, search_vars, screen, m_dblp,
                   harness_vars>>

InitMerge ==
    /\ uploaded_file = 0
    /\ has_state = FALSE
    /\ current_entry = 0
    /\ processed_entries = <<>>
    /\ processing_done = FALSE
    /\ pc = "off"
    /\ sched = "idle"
    /\ retry_count = 0
    /\ response = NoResponse
    /\ prev = NoResponse
    /\ paused = 0
    /\ dblp_results = Unset
    /\ screen = Blank
    /\ m_pc = "input"
    /\ \E S \in SUBSET LocalOptional : m_bibtex = LocalRecord(S)
    /\ \E choice \in [DblpFields -> 0..2], a \in 0..Len(AuthorShapes) :
           m_dblp = CandidateRecord(choice, a)
    /\ m_merged = NoEntry
    /\ requests = 0
    /\ t_call = TitleOff
    /\ a_call = AuthorsOff
    /\ f_call = FlickrOff

NextMerge == MergeCall

SpecMerge == InitMerge /\ [][NextMerge]_vars

\* the page is not running and no merge is called
PageOff ==
    /\ uploaded_file = 0
    /\ has_state = FALSE
    /\ current_entry = 0
    /\ processed_entries = <<>>
    /\ processing_done = FALSE
    /\ pc = "off"
    /\ sched = "idle"
    /\ retry_count = 0
    /\ response = NoResponse
    /\ prev = NoResponse
    /\ paused = 0
    /\ dblp_results = Unset
    /\ requests = 0
    /\ screen = Blank
    /\ m_pc = "off"
    /\ m_bibtex = NoEntry
    /\ m_dblp = NoEntry
    /\ m_merged = NoEntry

page_vars == <<uploaded_file, session_vars, pc, sched, search_vars, screen, merge_vars>>

(***************************************************************************)
(* get_author_str on its own, called with a list of author dicts (also     *)
(* wrapped as {"author": list}) whose text fields are drawn from           *)
(* AuthorTexts; choice 0 is a dict without a text field.                   *)
(***************************************************************************)
MaxAuthors == 2

AuthorTexts ==
    << <<"a", " ", "b">>,
       <<"a", " ", "b", " ", "0", "1">>,
       <<"a", " ", "b", "2">>,
       <<"0", "1">>,
       <<" ">>,
       <<"a", " ", " ", "b", " ", "7">>,
       <<>>,
       <<" ", "a">> >>

StructuredAuthor(c) ==
    IF c = 0 THEN PyDict([name |-> PyStr(<<"a">>)])
    ELSE PyDict([text |-> PyStr(AuthorTexts[c])])

AuthorsCall ==
    /\ a_call.pc = "input"
    /\ a_call' = IF get_author_str_raises(a_call.authors)
                 THEN [a_call EXCEPT !.pc = "raised"]
                 ELSE [a_call EXCEPT !.pc = "returned",
                                     !.result = get_author_str(a_call.authors)]
    /\ UNCHANGED <<page_vars, t_call, f_call>>

InitAuthors ==
    /\ PageOff
    /\ t_call = TitleOff
    /\ f_call = FlickrOff
    /\ \E n \in 0..MaxAuthors, wrapped \in BOOLEAN :
        \E choice \in [1..n -> 0..Len(AuthorTexts)] :
           LET author_list == PyList([i \in 1..n |-> StructuredAuthor(choice[i])])
           IN  a_call = [pc |-> "input",
                         authors |-> IF wrapped THEN PyDict([author |-> author_list])
                                     ELSE author_list,
                         result |-> <<>>]

NextAuthors == AuthorsCall

SpecAuthors == InitAuthors /\ [][NextAuthors]_vars

(***************************************************************************)
(* clean_title and the scorer on their own: a title of up to MaxTitleLen   *)
(* characters is normalised, the normal form is normalised again, and the  *)
(* title is scored against a candidate title that is the same title or     *)
(* the title written twice.                                                *)
(***************************************************************************)
MaxTitleLen == 3

TitleChars == {"a", "B", " ", "-", "{", "!", "I_dot"}

\* original_clean = clean_title(entry["title"])
TitleClean ==
    /\ t_call.pc = "input"
    /\ t_call' = [t_call EXCEPT !.pc = "cleaned", !.clean = clean_title(t_call.title)]
    /\ UNCHANGED <<page_vars, a_call, f_call>>

\* clean_title applied to its own result
TitleCleanAgain ==
    /\ t_call.pc = "cleaned"
    /\ t_call' = [t_call EXCEPT !.pc = "again", !.again = clean_title(t_call.clean)]
    /\ UNCHANGED <<page_vars, a_call, f_call>>

\* one pass of the loop over dblp_results (lines 255-264)
TitleScore ==
    /\ t_call.pc = "again"
    /\ LET result_clean == clean_title(t_call.result_title)
       IN  t_call' = [t_call EXCEPT
                         !.pc = "scored",
                         !.result_clean = result_clean,
                         !.score = similarity(t_call.clean, result_clean),
                         !.exact = similarity_above_threshold(t_call.clean, result_clean)]
    /\ UNCHANGED <<page_vars, a_call, f_call>>

InitTitle ==
    /\ PageOff
    /\ a_call = AuthorsOff
    /\ f_call = FlickrOff
    /\ \E n \in 0..MaxTitleLen, twice \in BOOLEAN :
        \E title \in [1..n -> TitleChars] :
           t_call = [TitleOff EXCEPT
                        !.pc = "input",
                        !.title = title,
                        !.result_title = IF twice THEN title \o <<" ">> \o title
                                         ELSE title]

NextTitle == TitleClean \/ TitleCleanAgain \/ TitleScore

SpecTitle == InitTitle /\ [][NextTitle]_vars

(***************************************************************************)
(* try_download_flickr_image (src/pages/flickr.py) on its own: one action  *)
(* per call of _attempt_download, whose request succeeds or fails.         *)
(* f_call.probed lists the URLs requested so far with their outcomes.      *)
(* The URLs are img src values without a line break, for which "$" of the  *)
(* pattern is the end of the string.                                       *)
(***************************************************************************)
ascii_lowercase ==
    {"a", "b", "c", "d", "e", "f", "g", "h", "i", "j", "k", "l", "m", "n", "o",
     "p", "q", "r", "s", "t", "u", "v", "w", "x", "y", "z"}

DotJpg == <<".", "j", "p", "g">>

\* as SUFFIX_ORDER, smallest size first
SUFFIX_ORDER_reversed ==
    << <<"_", "m">>, <<"_", "z">>, <<"_", "b">>, <<"_", "h">>, <<"_", "k">> >>

SUFFIX_ORDER ==
    << <<"_", "k">>, <<"_", "h">>, <<"_", "b">>, <<"_", "z">>, <<"_", "m">> >>

\* re.search(r'(_[a-z])\.jpg$', base_url) finds a match
suffix_match(base_url) ==
    LET n == Len(base_url)
    IN  /\ n >= 6
        /\ SubSeq(base_url, n - 3, n) = DotJpg
        /\ base_url[n - 4] \in ascii_lowercase
        /\ base_url[n - 5] = "_"

\* base_url[:match.start()]
prefix_of(base_url) == SubSeq(base_url, 1, Len(base_url) - 6)

\* prefix + suffix + ".jpg"
candidate_url(prefix, suffix) == prefix \o suffix \o DotJpg

\* str(e) of the RequestException
ErrorMessage == <<"e", "r", "r">>

\* _attempt_download(url): (True, url) or (False, str(e))
attempt_download(url, ok) ==
    IF ok THEN [success |-> TRUE, msg |-> url]
    ELSE [success |-> FALSE, msg |-> ErrorMessage]

FlickrStems == << <<"p">>, <<"p", "_", "b">>, <<>> >>

FlickrEndings ==
    << <<"_", "k">> \o DotJpg,
       <<"_", "o">> \o DotJpg,
       <<"_", "z">> \o DotJpg,
       <<"_", "K">> \o DotJpg,
       <<"_", "3">> \o DotJpg,
       <<"_", "k", "k">> \o DotJpg,
       DotJpg,
       <<"_", "k", ".", "p", "n", "g">>,
       <<"_", "k">> \o DotJpg \o <<"?", "s">> >>

\* line 21: the one attempt on a URL without a size suffix
SingleAttempt(ok) ==
    /\ f_call.pc = "called"
    /\ ~suffix_match(f_call.base_url)
    /\ f_call' = [f_call EXCEPT
                     !.pc = "returned",
                     !.probed = <<[url |-> f_call.base_url, ok |-> ok]>>,
                     !.returned = attempt_download(f_call.base_url, ok)]
    /\ UNCHANGED <<page_vars, t_call, a_call>>

\* one pass of the loop over SUFFIX_ORDER (lines 25-30)
Probe(ok) ==
    /\ f_call.pc = "called"
    /\ suffix_match(f_call.base_url)
    /\ Len(f_call.probed) < Len(SUFFIX_ORDER)
    /\ LET suffix == SUFFIX_ORDER[Len(f_call.probed) + 1]
           url == candidate_url(prefix_of(f_call.base_url), suffix)
           attempt == attempt_download(url, ok)
           last == Len(f_call.probed) + 1 = Len(SUFFIX_ORDER)
       IN  f_call' = [f_call EXCEPT
                         !.pc = IF attempt.success \/ last THEN "returned" ELSE "called",
                         !.probed = Append(f_call.probed, [url |-> url, ok |-> ok]),
                         !.returned = IF attempt.success
                                      THEN [success |-> TRUE, msg |-> url]
                                      ELSE [success |-> FALSE, msg |-> attempt.msg]]
    /\ UNCHANGED <<page_vars, t_call, a_call>>

InitFlickr ==
    /\ PageOff
    /\ t_call = TitleOff
    /\ a_call = AuthorsOff
    /\ \E stem \in 1..Len(FlickrStems), ending \in 1..Len(FlickrEndings) :
           f_call = [FlickrOff EXCEPT
                        !.pc = "called",
                        !.base_url = FlickrStems[stem] \o FlickrEndings[ending]]

NextFlickr ==
    \/ \E ok \in BOOLEAN : SingleAttempt(ok)
    \/ \E ok \in BOOLEAN : Probe(ok)

SpecFlickr == InitFlickr /\ [][NextFlickr]_vars

(***************************************************************************)
(* Properties                                                              *)
(***************************************************************************)
\* the entry the running script works on
CurrentEntry == Entries(uploaded_file)[current_entry + 1]

\* |intersection| / |union| > 0.8 of the word sets of the normalised
\* titles, as a comparison of integers
WordsOf(title) == word_set(clean_title(title))
AboveThreshold(entry, cand) ==
    5 * Cardinality(WordsOf(entry["title"]) \cap WordsOf(cand["title"]))
        > 4 * Cardinality(WordsOf(entry["title"]) \cup WordsOf(cand["title"]))
ExactlyAtThreshold(entry, cand) ==
    /\ Cardinality(WordsOf(entry["title"]) \cap WordsOf(cand["title"])) = 4
    /\ Cardinality(WordsOf(entry["title"]) \cup WordsOf(cand["title"])) = 5
IsPreprint(cand) ==
    \/ Contains(venue_of(cand), <<"C", "o", "R", "R">>)
    \/ Contains(venue_of(cand), <<"a", "r", "X", "i", "v">>)

\* C1: whenever the Done page is shown for the uploaded file, the finalized
\* sequence holds exactly one record per input entry of that file, in input
\* order, identified by citation key.
C1_DoneHoldsOneRecordPerEntry ==
    (processing_done /\ uploaded_file # 0 /\ screen.kind = "done" /\ sched = "idle")
        => /\ Len(processed_entries) = FileLen(uploaded_file)
           /\ \A i \in 1..FileLen(uploaded_file) :
                  processed_entries[i]["ID"] = Entries(uploaded_file)[i]["ID"]

\* C2: once every entry of the uploaded batch is finalized and nothing is
\* left to run or to answer, the workflow is Done.
C2_FinalizedBatchIsDone ==
    ( /\ uploaded_file # 0
      /\ has_state
      /\ pc = "idle"
      /\ sched = "idle"
      /\ screen.kind = "blank"
      /\ FileLen(uploaded_file) > 0
      /\ Len(processed_entries) = FileLen(uploaded_file)
      /\ \A i \in 1..FileLen(uploaded_file) :
             processed_entries[i]["ID"] = Entries(uploaded_file)[i]["ID"] )
        => processing_done

\* C3: whatever the service answered, search_dblp returns a sequence, and
\* the empty sequence when the last answer was not a success.
C3_SearchReturnsSequence ==
    pc = "scored"
        => /\ dblp_results.kind = "list"
           /\ response.kind # "ok" => dblp_results.hits = <<>>

C5_AutoAcceptIffAboveThreshold ==
    [][pc = "scored"
         => LET results == dblp_results.hits
                some_above == \E i \in 1..Len(results) :
                                  AboveThreshold(CurrentEntry, results[i])
            IN  /\ some_above
                     <=> /\ \E i \in 1..Len(results) :
                                processed_entries' =
                                    Append(processed_entries,
                                           merge_entries(CurrentEntry, results[i]))
                         /\ current_entry' = current_entry + 1
                         /\ screen'.kind # "conflict"
                /\ (results # <<>> /\ ~some_above)
                     => /\ screen' = ConflictPage(CurrentEntry, results)
                        /\ UNCHANGED <<processed_entries, current_entry>>]_vars

\* a conflict is on the page whose candidate shares 4 of 5 words
C5_Witness ==
    /\ screen.kind = "conflict"
    /\ sched = "rerun"
    /\ \E i \in 1..Len(screen.results) : ExactlyAtThreshold(screen.entry, screen.results[i])

\* C6: the merged candidate is the first above-threshold candidate in
\* result order that is no preprint, if there is one, and else the first
\* above-threshold candidate.
C6_First(S) == CHOOSE i \in S : \A j \in S : i <= j
C6_Chosen(entry, results) ==
    LET above == {i \in 1..Len(results) : AboveThreshold(entry, results[i])}
        reviewed == {i \in above : ~IsPreprint(results[i])}
    IN  results[IF reviewed # {} THEN C6_First(reviewed) ELSE C6_First(above)]
C6_NonPreprintPreferred ==
    [][(pc = "scored" /\ \E i \in 1..Len(dblp_results.hits) :
                            AboveThreshold(CurrentEntry, dblp_results.hits[i]))
         => processed_entries' =
                Append(processed_entries,
                       merge_entries(CurrentEntry,
                                     C6_Chosen(CurrentEntry, dblp_results.hits)))]_vars

\* the first entry of file 1 was merged with the ACM candidate, which the
\* service only lists behind an above-threshold CoRR candidate
C6_Witness ==
    /\ Len(processed_entries) >= 1
    /\ processed_entries[1] = merge_entries(EntryAt(1, 1), CandACM)
    /\ AboveThreshold(EntryAt(1, 1), CandCoRR)
    /\ IsPreprint(CandCoRR)

\* C8: the script run that follows an upload starts from a fresh batch
\* state: cursor 0, nothing finalized, not Done.
C8_UploadStartsFreshBatch ==
    [][(sched = "upload" /\ uploaded_file # 0 /\ pc = "idle" /\ sched' = "idle")
         => /\ current_entry' = 0
            /\ processed_entries' = <<>>
            /\ ~processing_done']_vars

\* C9: declining the presented conflict appends the entry's original record
\* to the finalized sequence, moves the cursor past the entry, and leaves
\* the finalized records, the file and the Done flag as they were.
C9_SkipAppendsOriginalOnly ==
    [][ClickDecline
         => /\ screen.entry = CurrentEntry
            /\ processed_entries' = Append(processed_entries, CurrentEntry)
            /\ current_entry' = current_entry + 1
            /\ UNCHANGED <<uploaded_file, has_state, processing_done>>]_vars

\* the second entry was declined after a first one was finalized
C9_Witness ==
    /\ sched = "callback"
    /\ uploaded_file # 0
    /\ current_entry = 2
    /\ Len(processed_entries) = 2
    /\ processed_entries[2] = Entries(uploaded_file)[2]

\* C10: after a 429 the call has paused for the header's seconds (30 without
\* a header) before it can issue the next request, and when that request
\* succeeds the call returns its hits.
C10_Wait(h) == CASE h = 1 -> 30 [] h = 2 -> 5 [] h = 4 -> 12 [] OTHER -> 0
C10_PauseThenResult ==
    /\ (pc = "search" /\ response.kind = "429") => paused >= C10_Wait(response.header)
    /\ (pc = "scored" /\ prev.kind = "429" /\ response.kind = "ok")
           => dblp_results = ReturnedList(HitLists[response.hits])

\* a 429 with a 5-second header was followed by a successful request
C10_Witness ==
    /\ pc = "scored"
    /\ prev.kind = "429"
    /\ prev.header = 2
    /\ response.kind = "ok"
    /\ dblp_results.hits = HitLists[response.hits]
    /\ dblp_results.hits # <<>>

\* C7: the field a candidate field is written to
C7_Source ==
    [title |-> "title", year |-> "year", doi |-> "doi", url |-> "url",
     journal |-> "venue", note |-> "type"]
C7_Set(cand, target) ==
    /\ target \in DOMAIN C7_Source
    /\ C7_Source[target] \in DOMAIN cand
    /\ cand[C7_Source[target]] # <<>>
C7_Overlaid(local, cand) ==
    [k \in DOMAIN local \cup {t \in DOMAIN C7_Source : C7_Set(cand, t)} |->
        IF C7_Set(cand, k) THEN cand[C7_Source[k]] ELSE local[k]]
C7_BlankAuthorText(cand) ==
    /\ "authors" \in DOMAIN cand
    /\ \E list \in {cand["authors"]} \cup
                   (IF cand["authors"].py = "dict" /\ "author" \in DOMAIN cand["authors"].v
                    THEN {cand["authors"].v["author"]} ELSE {}) :
          /\ list.py = "list"
          /\ \E i \in 1..Len(list.v) :
                 /\ list.v[i].py = "dict"
                 /\ "text" \in DOMAIN list.v[i].v
                 /\ list.v[i].v["text"].v # <<>>
                 /\ \A j \in 1..Len(list.v[i].v["text"].v) :
                        list.v[i].v["text"].v[j] = " "

\* C7 as claimed: the returned record is the local record overlaid with the
\* six mapped candidate fields that are present and non-empty, every other
\* local field keeping its local value, and the local record is unchanged.
C7_OverlayOfMappedFieldsOnly ==
    [][(m_pc = "input" /\ m_pc' = "merged")
         => /\ m_bibtex' = m_bibtex
            /\ m_merged' = C7_Overlaid(m_bibtex, m_dblp)]_vars

\* C7 as amended: the local record is unchanged by every call; the call
\* raises exactly when an author text of the candidate is blank but not
\* empty; the returned record is the overlay of the mapped fields, with
\* author set to get_author_str of the candidate's authors field whenever
\* the candidate has that field.
C7_OverlayAndAuthor ==
    [][m_pc = "input"
         => /\ m_bibtex' = m_bibtex
            /\ (m_pc' = "raised") <=> C7_BlankAuthorText(m_dblp)
            /\ m_pc' = "merged"
                 => /\ m_merged'["ID"] = m_bibtex["ID"]
                    /\ m_merged' =
                          IF "authors" \in DOMAIN m_dblp
                          THEN Put(C7_Overlaid(m_bibtex, m_dblp), "author",
                                   get_author_str(m_dblp["authors"]))
                          ELSE C7_Overlaid(m_bibtex, m_dblp)]_vars

\* a merge returned in which an empty candidate title left the local title
\* in place, the candidate's type replaced the note, and the candidate's
\* authors replaced the local author
C7_Witness ==
    /\ m_pc = "merged"
    /\ "title" \in DOMAIN m_dblp /\ m_dblp["title"] = <<>>
    /\ "title" \in DOMAIN m_bibtex /\ m_merged["title"] = m_bibtex["title"]
    /\ "type" \in DOMAIN m_dblp /\ m_dblp["type"] # <<>>
    /\ "note" \in DOMAIN m_bibtex /\ m_merged["note"] = m_dblp["type"]
    /\ "authors" \in DOMAIN m_dblp
    /\ "author" \in DOMAIN m_bibtex /\ m_merged["author"] # m_bibtex["author"]
    /\ m_merged["author"] = <<"x", " ", "y", ";", " ", "b">>

(***************************************************************************)
(* C11: a call of search_dblp makes at most max_retries requests.  While   *)
(* the call is still running every request made so far was answered by a   *)
(* rate limit or a failure and has used up exactly one attempt of the one  *)
(* counter retry_count, which stays below max_retries; a successful        *)
(* response never leaves the call running.                                 *)
(***************************************************************************)
C11_AtMostMaxRetriesRequests ==
    /\ requests <= max_retries
    /\ pc = "search" =>
          /\ requests = retry_count
          /\ retry_count < max_retries
          /\ response.kind # "ok"
    /\ pc = "scored" =>
          /\ requests >= 1
          /\ response.kind = "ok" => dblp_results = ReturnedList(HitLists[response.hits])

\* the last permitted request, made after a rate limit, fails and ends the call
C11_Witness ==
    /\ pc = "scored"
    /\ requests = max_retries
    /\ prev.kind = "429"
    /\ response.kind = "error"

(***************************************************************************)
(* C12: the reset button of the Done page removes the cursor and the       *)
(* finalized records from the session and clears the Done flag; the next   *)
(* script run that finds a file then starts as a fresh session does, with  *)
(* cursor 0, nothing finalized and not Done; and what a Done page exports  *)
(* is the finalized sequence built since then, which only grows by         *)
(* appending.                                                              *)
(***************************************************************************)
\* a step the user takes on the Done page that leaves the uploader alone
C12_ResetStep ==
    UserCanAct /\ screen.kind = "done" /\ uploaded_file' = uploaded_file

C12_ResetGivesFreshSession ==
    [][/\ C12_ResetStep =>
            /\ ~has_state'
            /\ ~processing_done'
            /\ sched' = "rerun"
       /\ (~has_state /\ has_state') =>
            /\ current_entry' = 0
            /\ processed_entries' = <<>>
            /\ ~processing_done'
       /\ (has_state /\ has_state') =>
            \/ processed_entries' = processed_entries
            \/ /\ Len(processed_entries') = Len(processed_entries) + 1
               /\ SubSeq(processed_entries', 1, Len(processed_entries)) = processed_entries
       /\ screen'.kind = "done" => screen'.export = processed_entries']_vars

\* the reset button was pressed and the rerun it asked for is due
C12_Witness ==
    /\ ~has_state
    /\ uploaded_file # 0
    /\ sched = "rerun"
    /\ screen = Blank

(***************************************************************************)
(* C13: when the search has returned no candidates (None after five rate   *)
(* limits, or an empty list), the rest of the run finalizes the entry      *)
(* without asking: it appends a record with the fields of the entry at the *)
(* cursor and a note field, equal to the entry in every field but note,    *)
(* the note being the diagnostic text, put after the entry's own note and  *)
(* ". " if it has one; the cursor moves on by one, the file is untouched,  *)
(* no conflict is shown, and a rerun is due, with Done set exactly when    *)
(* that was the last entry.                                                *)
(***************************************************************************)
C13_NoCandidates ==
    pc = "scored" /\ (dblp_results.kind = "None" \/ dblp_results.hits = <<>>)

C13_NoMatchFinalizesAnnotatedCopy ==
    [][C13_NoCandidates =>
         LET finalized == processed_entries'[Len(processed_entries')]
         IN  /\ Len(processed_entries') = Len(processed_entries) + 1
             /\ SubSeq(processed_entries', 1, Len(processed_entries)) = processed_entries
             /\ DOMAIN finalized = DOMAIN CurrentEntry \cup {"note"}
             /\ \A k \in DOMAIN CurrentEntry \ {"note"} : finalized[k] = CurrentEntry[k]
             /\ finalized["note"] =
                    IF "note" \in DOMAIN CurrentEntry
                    THEN CurrentEntry["note"] \o <<".", " ">> \o TodoNote
                    ELSE TodoNote
             /\ current_entry' = current_entry + 1
             /\ uploaded_file' = uploaded_file
             /\ screen'.kind = "blank"
             /\ pc' = "idle" /\ sched' = "rerun"
             /\ processing_done' =
                    (processing_done \/ current_entry' >= FileLen(uploaded_file))]_vars

\* the second entry of file 1, which has a note of its own, was finalized
\* with the diagnostic text after its note
C13_Witness ==
    /\ uploaded_file = 1
    /\ sched = "rerun"
    /\ current_entry = 2
    /\ Len(processed_entries) = 2
    /\ "note" \in DOMAIN processed_entries[2]
    /\ processed_entries[2]["note"] = <<"n", ".", " ">> \o TodoNote
    /\ processed_entries[2]["ID"] = Entries(1)[2]["ID"]

(***************************************************************************)
(* C14: called with a list of author dicts, get_author_str returns, and    *)
(* what it returns holds one name for every entry of the list, the names   *)
(* being separated by "; ".                                                *)
(***************************************************************************)
C14_List == author_list_of(a_call.authors).v

\* the number of places where s holds "; "
C14_Separators(s) ==
    Cardinality({i \in 1..(Len(s) - 1) : s[i] = ";" /\ s[i + 1] = " "})

C14_EveryEntryContributesOneName ==
    /\ a_call.pc # "raised"
    /\ (a_call.pc = "returned" /\ C14_List # <<>>) =>
           C14_Separators(a_call.result) = Len(C14_List) - 1

(***************************************************************************)
(* C15 as claimed: a normalised title scored against a candidate with the  *)
(* same word set has similarity 1.0 and is above the auto-accept           *)
(* threshold.                                                              *)
(***************************************************************************)
C15_SameWords ==
    /\ t_call.pc = "scored"
    /\ word_set(t_call.clean) = word_set(t_call.result_clean)

C15_SelfSimilarityIsOne ==
    C15_SameWords => (t_call.score[1] = t_call.score[2] /\ t_call.exact)

\* C15 as the code has it: a normalised title scored against a candidate
\* with the same word set has similarity 1.0 and is above the threshold
\* when it has at least one word, and similarity 0, not above the
\* threshold, when it has none.
C15_SelfSimilarityIsOneWithWords ==
    C15_SameWords =>
        IF \E i \in 1..Len(t_call.clean) : ~isspace(t_call.clean[i])
        THEN t_call.score[1] = t_call.score[2] /\ t_call.exact
        ELSE t_call.score[1] = 0 /\ ~t_call.exact

\* a title of two words was scored against the candidate that repeats it
C15_Witness ==
    /\ t_call.pc = "scored"
    /\ t_call.title = <<"a", "-", "B">>
    /\ t_call.result_clean = <<"a", " ", "b", " ", "a", " ", "b">>
    /\ t_call.score = <<2, 2>>
    /\ t_call.exact

(***************************************************************************)
(* C16: normalising a normalised title gives it back unchanged.            *)
(***************************************************************************)
C16_CleanTitleIdempotent ==
    t_call.pc \in {"again", "scored"} => t_call.again = t_call.clean

(***************************************************************************)
(* C17: whenever a script run has ended for the file in the uploader, the  *)
(* number of finalized records equals the cursor, the cursor does not      *)
(* exceed the number of entries of the file, and the i-th finalized record *)
(* carries the citation key of the i-th entry of the file, for every i     *)
(* below the cursor.                                                       *)
(***************************************************************************)
C17_CursorCountsFinalizedInOrder ==
    (has_state /\ uploaded_file # 0 /\ pc = "idle" /\ sched # "upload") =>
        /\ Len(processed_entries) = current_entry
        /\ current_entry <= FileLen(uploaded_file)
        /\ \A i \in 1..current_entry :
               /\ i <= Len(processed_entries)
               /\ i <= FileLen(uploaded_file)
               /\ processed_entries[i]["ID"] = Entries(uploaded_file)[i]["ID"]

(***************************************************************************)
(* C18: while a conflict is displayed and the user has not yet chosen, no  *)
(* script run calls the search again, so that the entry at the cursor is   *)
(* searched once only.                                                     *)
(***************************************************************************)
C18_ConflictWaiting ==
    /\ pc = "idle"
    /\ screen.kind = "conflict"
    /\ sched \notin {"callback", "upload"}
    /\ screen.entry = CurrentEntry

C18_NoSearchWhileConflictWaits ==
    [][C18_ConflictWaiting => (pc' # "search" /\ requests' = 0)]_vars

(***************************************************************************)
(* C19: for a URL that ends in "_", one lowercase letter and ".jpg", the   *)
(* URLs requested are the URL's part before that ending followed by _k,    *)
(* _h, _b, _z, _m (in this order) and ".jpg"; every request but the last   *)
(* has failed; the call returns (True, URL) of the last request as soon as *)
(* one succeeds, and returns failure only after five failed requests.  For *)
(* any other URL the only request is for the URL itself, and its outcome   *)
(* is the outcome of the call.                                             *)
(***************************************************************************)
C19_Sizes == <<"k", "h", "b", "z", "m">>

C19_HasSizeSuffix ==
    LET url == f_call.base_url
        n == Len(url)
    IN  /\ n >= 6
        /\ url[n - 5] = "_"
        /\ url[n - 4] \in ascii_lowercase
        /\ <<url[n - 3], url[n - 2], url[n - 1], url[n]>> = <<".", "j", "p", "g">>

C19_Expected(i) ==
    SubSeq(f_call.base_url, 1, Len(f_call.base_url) - 6)
        \o <<"_", C19_Sizes[i], ".", "j", "p", "g">>

C19_ProbesInOrderUntilSuccess ==
    LET probed == f_call.probed
        n == Len(probed)
    IN  f_call.pc \in {"called", "returned"} =>
          /\ \A i \in 1..(n - 1) : ~probed[i].ok
          /\ f_call.pc = "called" => \A i \in 1..n : ~probed[i].ok
          /\ f_call.pc = "returned" =>
                /\ n >= 1
                /\ f_call.returned.success = probed[n].ok
                /\ f_call.returned.success => f_call.returned.msg = probed[n].url
          /\ IF C19_HasSizeSuffix
             THEN /\ n <= 5
                  /\ \A i \in 1..n : probed[i].url = C19_Expected(i)
                  /\ (f_call.pc = "returned" /\ ~f_call.returned.success) => n = 5
             ELSE /\ n <= 1
                  /\ \A i \in 1..n : probed[i].url = f_call.base_url

\* the third candidate of a URL with suffix _o was downloaded, after _k
\* and _h had failed
C19_Witness ==
    /\ f_call.pc = "returned"
    /\ f_call.base_url = <<"p", "_", "b", "_", "o", ".", "j", "p", "g">>
    /\ Len(f_call.probed) = 3
    /\ f_call.returned = [success |-> TRUE,
                          msg |-> <<"p", "_", "b", "_", "b", ".", "j", "p", "g">>]
====
